---- MODULE Spec2Model ----
(***************************************************************************)
(* State-machine model of the ingestion core of spapify (src/apis.py):     *)
(* the five retried operations get_access_token, send_discord_alert,       *)
(* get_new_released_albums, get_top_tracks_from_chart and                  *)
(* insert_data_from_top_tracks.  The remote services and the database      *)
(* server are the environment: every response and every failure they can  *)
(* produce is an input of the attempt that receives it.                    *)
(***************************************************************************)
EXTENDS Integers, Sequences, FiniteSets, TLC

(***************************************************************************)
(* Program constant and bounds of the model.                               *)
(***************************************************************************)
MAX_RETRIES == 5

\* calls of the function under test in one behaviour
MaxRuns == 2
\* entries in one batch of chart tracks
MaxBatch == 2
\* pages one paginated fetch may walk successfully
MaxPages == 2

(***************************************************************************)
(* Data domains.                                                           *)
(***************************************************************************)
Functions ==
    { "get_access_token", "send_discord_alert", "get_new_released_albums",
      "get_top_tracks_from_chart", "insert_data_from_top_tracks" }

None == "None"

\* HTTP status codes a remote may answer with; requests' Response.ok is
\* "status below 400".
Statuses == {200, 204, 500}
Ok(status) == status < 400

\* ---- token endpoint ----
Tokens == {"tokA", "tokB"}
\* a response of the token endpoint: a transport error (exc), or a status
\* and a decoded body that holds the access_token field or lacks it (None)
TokenResponses ==
    { [exc |-> TRUE, status |-> 500, access_token |-> None] } \cup
    [exc : {FALSE}, status : Statuses, access_token : Tokens \cup {None}]

\* ---- webhook ----
AlertResponses ==
    { [exc |-> TRUE, status |-> 500] } \cup [exc : {FALSE}, status : Statuses]

\* ---- chart endpoint ----
ChartBodies == {"chart1", "chart2"}
ChartResponses ==
    { [exc |-> TRUE, status |-> 500, body |-> None] } \cup
    [exc : {FALSE}, status : Statuses, body : ChartBodies]

\* ---- album listing endpoint ----
FirstUrl == "new-releases?limit=50"
Urls == {FirstUrl, "new-releases?offset=50"}
Items == {"itemsX", "itemsY"}
\* the "albums" object of a page: its items and the pointer to the next page
Albums == [items : Items, next : Urls \cup {None}]
Quote == "\""
\* raw values of the ETag header, as sequences of pieces: quoted or bare
RawEtags == { <<Quote, "e1", Quote>>, <<Quote, "e2", Quote>>, <<"e1">> }
\* names under which a server may send the header
HeaderNames == {"ETag", "etag"}
\* headers of a response: no entity tag at all, or one under some spelling
Headers == { <<>> } \cup { << <<n, v>> >> : n \in HeaderNames, v \in RawEtags }
\* a response of the listing endpoint: a transport error (exc), or a status,
\* the headers and a decoded body; keys are the keys the body holds, and
\* albums is what it holds under "albums" (NoAlbums when it lacks the key);
\* a 204 answer has no content, so its body holds no key; the answers that
\* are not OK or lack "albums" come with one entity tag or with none
NoAlbums == [items |-> None, next |-> None]
TaggedE1 == << <<"ETag", <<Quote, "e1", Quote>>>> >>
AlbumResponses ==
    { [exc |-> TRUE, status |-> 500, keys |-> {}, albums |-> NoAlbums,
       headers |-> <<>>] } \cup
    [exc : {FALSE}, status : Statuses, keys : {{}}, albums : {NoAlbums},
     headers : {<<>>, TaggedE1}] \cup
    [exc : {FALSE}, status : {200}, keys : {{"albums"}}, albums : Albums,
     headers : Headers] \cup
    [exc : {FALSE}, status : {500}, keys : {{"albums"}}, albums : Albums,
     headers : {TaggedE1}]

\* ---- chart entries and database rows ----
BatchName == "n1"
SeedName == "n0"
\* minutes of the wall clock
Minutes == {0, 1}
\* the chart lines the batches are made of, as track URL, artist URL and play
\* count: one track under two play counts, two tracks of one artist, and one
\* track URL under two artists
Charted ==
    { <<"t1", "a1", 10>>, <<"t1", "a1", 20>>, <<"t2", "a1", 10>>, <<"t2", "a2", 20>> }
\* one element of tracks["tracks"]["track"]
Entry(c) ==
    [name |-> BatchName, url |-> c[1],
     artist |-> [name |-> BatchName, url |-> c[2]],
     playcount |-> c[3], listeners |-> 5]
Entries == { Entry(c) : c \in Charted }
Batches == UNION { [1..n -> Entries] : n \in 0..MaxBatch }

VARIABLES
    fn,               \* the function this behaviour calls
    pc,               \* "idle", "running" or "done"
    runs,             \* calls started so far
    retries,          \* local retries of the running call
    response,         \* local response: the last response received
    url,              \* get_new_released_albums: location of the current page
    entire_albums,    \* get_new_released_albums: the aggregate, in insertion order
    top_tracks,       \* insert_data_from_top_tracks: the batch argument
    ret,              \* outcome of the call: [kind, value]
    events,           \* requests, sleeps and log records of the current retry budget
    walked,           \* pages fetched successfully by the running call, in order,
                      \* each with the failed attempts it took
    artists,          \* table artists, committed rows in id order
    tracks,           \* table tracks, committed rows in id order
    chart_histories,  \* table chart_histories, committed rows in id order
    clock,            \* current minute of the wall clock
    db_pre,           \* committed tables when the running call started
    db_init,          \* committed tables of the initial state
    commits,          \* successful persister calls since the initial state
    job,              \* main.py: the job of this run, None when a function of
                      \* apis.py is called on its own
    job_pc,           \* main.py: where the job is: "core", "loop", "alert",
                      \* "done" or "crashed"
    job_events,       \* main.py: log records and alert calls of the job, in order
    pending,          \* get_new_releases: identifiers the for loop has yet to visit
    tx,               \* overlapping persister calls: per call its batch, where it
                      \* is in the transaction, retries and outcome
    store             \* overlapping persister calls: the three tables with the
                      \* rows of every transaction, in id order

vars == << fn, pc, runs, retries, response, url, entire_albums, top_tracks, ret,
           events, walked, artists, tracks, chart_histories, clock, db_pre, db_init,
           commits, job, job_pc, job_events, pending, tx, store >>

callvars == << retries, response, url, entire_albums, ret, events, walked >>
dbvars == << artists, tracks, chart_histories, clock, db_pre, db_init, commits >>
mainvars == << job, job_pc, job_events, pending >>
overlapvars == << tx, store >>

(***************************************************************************)
(* Effects recorded in events.                                             *)
(***************************************************************************)
Request == <<"request", 0>>
Sleep(secs) == <<"sleep", secs>>
Log(level, arg) == <<level, arg>>

NoRet == [kind |-> "none", value |-> None]
Return(v) == [kind |-> "return", value |-> v]
Raise(e) == [kind |-> "raise", value |-> e]
NoResponse == [exc |-> FALSE, status |-> 0]

\* a delay that grows linearly instead of doubling
BackoffLinear(n) == 2 * n

\* time.sleep(2**retries)
Backoff(n) == 2 ^ n

\* retries += 1; if retries < MAX_RETRIES: time.sleep(2**retries)
SleepAfterFailure(n) ==
    IF n + 1 < MAX_RETRIES THEN << Sleep(Backoff(n + 1)) >> ELSE << >>

\* if 0 < retries: time.sleep(2**retries)
SleepBeforeAttempt(n) ==
    IF 0 < n THEN << Sleep(Backoff(n)) >> ELSE << >>

(***************************************************************************)
(* get_access_token                                                        *)
(***************************************************************************)
\* the body is read without looking at response.ok
TokenGrantedAnyStatus(resp) ==
    /\ ~resp.exc
    /\ resp.access_token # None

\* the attempt returns: response.ok and the body holds access_token
TokenGranted(resp) ==
    /\ ~resp.exc
    /\ Ok(resp.status)
    /\ resp.access_token # None

get_access_token_Call ==
    /\ fn = "get_access_token"
    /\ pc \in {"idle", "done"}
    /\ runs < MaxRuns
    /\ pc' = "running"
    /\ runs' = runs + 1
    /\ retries' = 0
    /\ response' = NoResponse
    /\ ret' = NoRet
    /\ events' = << >>
    /\ UNCHANGED << fn, url, entire_albums, top_tracks, walked >>
    /\ UNCHANGED dbvars
    /\ UNCHANGED mainvars
    /\ UNCHANGED overlapvars

get_access_token_Attempt(resp) ==
    /\ fn = "get_access_token"
    /\ pc = "running"
    /\ retries < MAX_RETRIES
    /\ response' = resp
    /\ IF TokenGranted(resp)
       THEN /\ ret' = Return(resp.access_token)
            /\ pc' = "done"
            /\ events' = events \o << Request >>
            /\ UNCHANGED retries
       ELSE /\ retries' = retries + 1
            /\ events' = events \o << Request, Log("warning", None) >>
                                \o SleepAfterFailure(retries)
            /\ UNCHANGED << ret, pc >>
    /\ UNCHANGED << fn, runs, url, entire_albums, top_tracks, walked >>
    /\ UNCHANGED dbvars
    /\ UNCHANGED mainvars
    /\ UNCHANGED overlapvars

get_access_token_Exhausted ==
    /\ fn = "get_access_token"
    /\ pc = "running"
    /\ ~(retries < MAX_RETRIES)
    /\ ret' = Raise("ValueError")
    /\ pc' = "done"
    /\ UNCHANGED << fn, runs, retries, response, url, entire_albums, top_tracks,
                    events, walked >>
    /\ UNCHANGED dbvars
    /\ UNCHANGED mainvars
    /\ UNCHANGED overlapvars

(***************************************************************************)
(* send_discord_alert                                                      *)
(***************************************************************************)
AlertDelivered(resp) == ~resp.exc /\ Ok(resp.status)

\* the notifier ending like the fetchers do, with a raise
AlertAfterExhaustionRaising == Raise("ValueError")

\* after the loop: logging.error(...) and the function ends, returning None
AlertAfterExhaustion == Return(None)

send_discord_alert_Call ==
    /\ fn = "send_discord_alert"
    /\ pc \in {"idle", "done"}
    /\ runs < MaxRuns
    /\ pc' = "running"
    /\ runs' = runs + 1
    /\ retries' = 0
    /\ response' = NoResponse
    /\ ret' = NoRet
    /\ events' = << >>
    /\ UNCHANGED << fn, url, entire_albums, top_tracks, walked >>
    /\ UNCHANGED dbvars
    /\ UNCHANGED mainvars
    /\ UNCHANGED overlapvars

send_discord_alert_Attempt(resp) ==
    /\ fn = "send_discord_alert"
    /\ pc = "running"
    /\ retries < MAX_RETRIES
    /\ response' = resp
    /\ IF AlertDelivered(resp)
       THEN /\ ret' = Return(None)
            /\ pc' = "done"
            /\ events' = events \o << Request, Log("info", None) >>
            /\ UNCHANGED retries
       ELSE /\ retries' = retries + 1
            /\ events' = events \o << Request, Log("warning", None) >>
                                \o SleepAfterFailure(retries)
            /\ UNCHANGED << ret, pc >>
    /\ UNCHANGED << fn, runs, url, entire_albums, top_tracks, walked >>
    /\ UNCHANGED dbvars
    /\ UNCHANGED mainvars
    /\ UNCHANGED overlapvars

\* the loop ends without a delivery: log the error and fall off the end
send_discord_alert_Exhausted ==
    /\ fn = "send_discord_alert"
    /\ pc = "running"
    /\ ~(retries < MAX_RETRIES)
    /\ events' = Append(events, Log("error", None))
    /\ ret' = AlertAfterExhaustion
    /\ pc' = "done"
    /\ UNCHANGED << fn, runs, retries, response, url, entire_albums, top_tracks,
                    walked >>
    /\ UNCHANGED dbvars
    /\ UNCHANGED mainvars
    /\ UNCHANGED overlapvars

(***************************************************************************)
(* get_top_tracks_from_chart                                               *)
(***************************************************************************)
ChartFetched(resp) == ~resp.exc /\ resp.status = 200

get_top_tracks_from_chart_Call ==
    /\ fn = "get_top_tracks_from_chart"
    /\ pc \in {"idle", "done"}
    /\ runs < MaxRuns
    /\ pc' = "running"
    /\ runs' = runs + 1
    /\ retries' = 0
    /\ response' = NoResponse
    /\ ret' = NoRet
    /\ events' = << >>
    /\ UNCHANGED << fn, url, entire_albums, top_tracks, walked >>
    /\ UNCHANGED dbvars
    /\ UNCHANGED mainvars
    /\ UNCHANGED overlapvars

get_top_tracks_from_chart_Attempt(resp) ==
    /\ fn = "get_top_tracks_from_chart"
    /\ pc = "running"
    /\ retries < MAX_RETRIES
    /\ response' = resp
    /\ IF ChartFetched(resp)
       THEN /\ ret' = Return(resp.body)
            /\ pc' = "done"
            /\ events' = events \o SleepBeforeAttempt(retries) \o << Request >>
            /\ UNCHANGED retries
       ELSE /\ retries' = retries + 1
            /\ events' = events \o SleepBeforeAttempt(retries)
                                \o << Request, Log("warning", None) >>
            /\ UNCHANGED << ret, pc >>
    /\ UNCHANGED << fn, runs, url, entire_albums, top_tracks, walked >>
    /\ UNCHANGED dbvars
    /\ UNCHANGED mainvars
    /\ UNCHANGED overlapvars

get_top_tracks_from_chart_Exhausted ==
    /\ fn = "get_top_tracks_from_chart"
    /\ pc = "running"
    /\ ~(retries < MAX_RETRIES)
    /\ ret' = Raise("ValueError")
    /\ pc' = "done"
    /\ UNCHANGED << fn, runs, retries, response, url, entire_albums, top_tracks,
                    events, walked >>
    /\ UNCHANGED dbvars
    /\ UNCHANGED mainvars
    /\ UNCHANGED overlapvars

(***************************************************************************)
(* get_new_released_albums                                                 *)
(***************************************************************************)
\* str.lower() on the header names the model uses
Lower(name) == IF name = "ETag" THEN "etag" ELSE name

\* key in response.headers, under requests' case-insensitive lookup
HasHeader(headers, key) ==
    \E i \in 1..Len(headers) : Lower(headers[i][1]) = Lower(key)

\* response.headers[key], for a header that is there
HeaderGet(headers, key) ==
    headers[CHOOSE i \in 1..Len(headers) : Lower(headers[i][1]) = Lower(key)][2]

RECURSIVE LStrip(_)
LStrip(s) == IF s # << >> /\ Head(s) = Quote THEN LStrip(Tail(s)) ELSE s

RECURSIVE RStrip(_)
RStrip(s) ==
    IF s # << >> /\ s[Len(s)] = Quote THEN RStrip(SubSeq(s, 1, Len(s) - 1)) ELSE s

\* etag.strip('"')
Strip(s) == RStrip(LStrip(s))

\* a list of pairs instead of a dict: every page adds an entry
DictSetAppend(d, k, v) == Append(d, <<k, v>>)

\* a first-write-wins insertion: d.setdefault(k, v)
DictSetDefault(d, k, v) ==
    IF \E i \in 1..Len(d) : d[i][1] = k THEN d ELSE Append(d, <<k, v>>)

\* d[k] = v on a dict kept in insertion order: an existing key keeps its
\* place and takes the new value, a new key goes to the end
DictSet(d, k, v) ==
    IF \E i \in 1..Len(d) : d[i][1] = k
    THEN [i \in 1..Len(d) |-> IF d[i][1] = k THEN <<k, v>> ELSE d[i]]
    ELSE Append(d, <<k, v>>)

DictKeys(d) == { d[i][1] : i \in 1..Len(d) }
DictGet(d, k) == d[CHOOSE i \in 1..Len(d) : d[i][1] = k][2]

\* what the loop body looks at in the answer: whether requests.get raised,
\* response.ok and, of an OK answer, the keys of the body and whether the
\* ETag header is there
Received(resp) ==
    IF resp.exc \/ ~Ok(resp.status)
    THEN [exc |-> resp.exc, ok |-> FALSE, keys |-> {}, tagged |-> FALSE]
    ELSE [exc |-> FALSE, ok |-> TRUE, keys |-> resp.keys,
          tagged |-> HasHeader(resp.headers, "ETag")]

\* a body read with .get("albums"): a missing field is not an error
PageFetchedLenient(resp) ==
    /\ ~resp.exc
    /\ Ok(resp.status)
    /\ HasHeader(resp.headers, "ETag")

\* the attempt reaches line 141: response.ok, the body holds "albums" and
\* the response holds the ETag header
PageFetched(resp) ==
    /\ ~resp.exc
    /\ Ok(resp.status)
    /\ "albums" \in resp.keys
    /\ HasHeader(resp.headers, "ETag")

PageEtag(resp) == Strip(HeaderGet(resp.headers, "ETag"))

\* one budget shared by all pages: the counter is not reset
RetriesKept(n) == n

\* retries = 0  # Reset retries for the next url page
RetriesForNextPage(n) == 0

\* exhaustion raising whatever has been aggregated
AlbumsAlwaysRaise(agg) == Raise("ValueError")

\* exhaustion handing back an empty aggregate
AlbumsDroppedOnExhaustion(agg) == Return(<< >>)

\* what the function hands back when the loop ends without a last page
AlbumsAfterExhaustion(agg) ==
    IF agg # << >> THEN Return(agg) ELSE Raise("ValueError")

get_new_released_albums_Call ==
    /\ fn = "get_new_released_albums"
    /\ pc \in {"idle", "done"}
    /\ runs < MaxRuns
    /\ pc' = "running"
    /\ runs' = runs + 1
    /\ retries' = 0
    /\ entire_albums' = << >>
    /\ url' = FirstUrl
    /\ ret' = NoRet
    /\ events' = << >>
    /\ walked' = << >>
    /\ response' = NoResponse
    /\ UNCHANGED << fn, top_tracks >>
    /\ UNCHANGED dbvars
    /\ UNCHANGED mainvars
    /\ UNCHANGED overlapvars

get_new_released_albums_Attempt(resp) ==
    /\ fn = "get_new_released_albums"
    /\ pc = "running"
    /\ retries < MAX_RETRIES
    /\ Len(walked) < MaxPages
    /\ IF PageFetched(resp)
       THEN /\ entire_albums' = DictSet(entire_albums, PageEtag(resp), resp.albums)
            /\ walked' = Append(walked, [url |-> url, etag |-> PageEtag(resp),
                                         albums |-> resp.albums,
                                         failures |-> retries])
            /\ IF resp.albums.next = None
               THEN /\ ret' = Return(entire_albums')
                    /\ pc' = "done"
                    /\ events' = events \o << Request >>
                    /\ UNCHANGED << url, retries >>
               ELSE /\ url' = resp.albums.next
                    /\ retries' = RetriesForNextPage(retries)
                    /\ events' = << >>
                    /\ UNCHANGED << ret, pc >>
       ELSE /\ retries' = retries + 1
            /\ events' = events \o << Request, Log("warning", None) >>
                                \o SleepAfterFailure(retries)
            /\ UNCHANGED << entire_albums, walked, url, ret, pc >>
    /\ response' = Received(resp)
    /\ UNCHANGED << fn, runs, top_tracks >>
    /\ UNCHANGED dbvars
    /\ UNCHANGED mainvars
    /\ UNCHANGED overlapvars

get_new_released_albums_Exhausted ==
    /\ fn = "get_new_released_albums"
    /\ pc = "running"
    /\ ~(retries < MAX_RETRIES)
    /\ ret' = AlbumsAfterExhaustion(entire_albums)
    /\ events' = IF entire_albums # << >>
                 THEN Append(events, Log("error", url))
                 ELSE events
    /\ pc' = "done"
    /\ UNCHANGED << fn, runs, retries, response, url, entire_albums, top_tracks,
                    walked >>
    /\ UNCHANGED dbvars
    /\ UNCHANGED mainvars
    /\ UNCHANGED overlapvars

(***************************************************************************)
(* insert_data_from_top_tracks                                             *)
(***************************************************************************)
\* A table is the sequence of its rows in id order: the id of a row is its
\* position.  Null is SQL NULL.
Null == 0

\* a lookup that finds nothing
IdUnresolved(table, u) == Null

\* (SELECT id FROM <table> WHERE lastfm_url = u)
IdByUrl(table, u) ==
    IF \E i \in 1..Len(table) : table[i].lastfm_url = u
    THEN CHOOSE i \in 1..Len(table) : table[i].lastfm_url = u
    ELSE Null

\* an INSERT without the WHERE NOT EXISTS guard
NotExistsUnguarded(table, u) == TRUE

\* WHERE NOT EXISTS (SELECT * FROM <table> WHERE lastfm_url = u)
NotExists(table, u) == ~ \E i \in 1..Len(table) : table[i].lastfm_url = u

\* an upsert that overwrites the row it finds (ON CONFLICT DO UPDATE)
RECURSIVE InsertArtistsUpdating(_, _)
InsertArtistsUpdating(art, batch) ==
    IF batch = << >> THEN art
    ELSE LET track == Head(batch)
             row == [name |-> track.artist.name, lastfm_url |-> track.artist.url]
         IN InsertArtistsUpdating(
                IF NotExists(art, track.artist.url)
                THEN Append(art, row)
                ELSE [i \in 1..Len(art) |->
                         IF art[i].lastfm_url = row.lastfm_url THEN row ELSE art[i]],
                Tail(batch))

\* first executemany: one guarded INSERT INTO artists per entry, in order
RECURSIVE InsertArtists(_, _)
InsertArtists(art, batch) ==
    IF batch = << >> THEN art
    ELSE LET track == Head(batch)
             row == [name |-> track.artist.name, lastfm_url |-> track.artist.url]
         IN InsertArtists(IF NotExists(art, track.artist.url)
                          THEN Append(art, row) ELSE art,
                          Tail(batch))

\* second executemany: one guarded INSERT INTO tracks per entry, in order
RECURSIVE InsertTracks(_, _, _)
InsertTracks(trk, art, batch) ==
    IF batch = << >> THEN trk
    ELSE LET track == Head(batch)
             row == [name |-> track.name,
                     artist_id |-> IdByUrl(art, track.artist.url),
                     lastfm_url |-> track.url]
         IN InsertTracks(IF NotExists(trk, track.url)
                         THEN Append(trk, row) ELSE trk,
                         art, Tail(batch))

\* the 0-based list position used as the rank
RankZeroBased(index) == index

\* index + 1  # rank starts from 1   (index is the 0-based list position)
Rank(index) == index + 1

\* third executemany: one INSERT INTO chart_histories per entry; dates[i]
\* is what datetime.now().isoformat(timespec="minutes") gave for entry i
HistoryRows(trk, batch, dates) ==
    [i \in 1..Len(batch) |->
        [track_id |-> IdByUrl(trk, batch[i].url),
         playcount |-> batch[i].playcount,
         listener |-> batch[i].listeners,
         chart_date |-> dates[i],
         rank |-> Rank(i - 1)]]

InsertHistories(hist, trk, batch, dates) == hist \o HistoryRows(trk, batch, dates)

\* the parameter list of the third executemany is built entry by entry and
\* reads the clock once per entry: the first `before` entries see minute
\* now, the others the next minute
Dates(now, n, before) == [i \in 1..n |-> IF i <= before THEN now ELSE now + 1]

\* the statements of one attempt run in this order
Stages == << "connect", "artists", "tracks", "chart_histories", "commit" >>
StageNo(stage) == CHOOSE i \in 1..Len(Stages) : Stages[i] = stage

\* what the server can do to one attempt: let it through (err = None), or
\* fail it at a stage with a psycopg.OperationalError or with another
\* psycopg.Error (IntegrityError stands for those)
DbOutcomes ==
    { [err |-> None, stage |-> "commit"] } \cup
    [err : {"OperationalError"}, stage : { Stages[i] : i \in 1..Len(Stages) }] \cup
    [err : {"IntegrityError"}, stage : {"artists", "tracks", "chart_histories"}]

\* the tables as the open transaction sees them when it reaches `stage`
\* (the statements of the earlier stages have run)
WorkAt(db, batch, dates, stage) ==
    LET art == IF StageNo(stage) > StageNo("artists")
               THEN InsertArtists(db[1], batch) ELSE db[1]
        trk == IF StageNo(stage) > StageNo("tracks")
               THEN InsertTracks(db[2], art, batch) ELSE db[2]
        hist == IF StageNo(stage) > StageNo("chart_histories")
                THEN InsertHistories(db[3], trk, batch, dates) ELSE db[3]
    IN << art, trk, hist >>

\* a connection in autocommit mode: every statement that ran stays
CommittedAutocommit(db, work, err) == work

\* with psycopg.connect(...) as conn: the block commits when it ends
\* normally and rolls back when an exception leaves it
Committed(db, work, err) == IF err = None THEN work ELSE db

insert_data_from_top_tracks_Call ==
    /\ fn = "insert_data_from_top_tracks"
    /\ pc \in {"idle", "done"}
    /\ runs < MaxRuns
    /\ pc' = "running"
    /\ runs' = runs + 1
    /\ retries' = 0
    /\ ret' = NoRet
    /\ events' = << >>
    /\ db_pre' = << artists, tracks, chart_histories >>
    /\ UNCHANGED << fn, response, url, entire_albums, top_tracks, walked >>
    /\ UNCHANGED << artists, tracks, chart_histories, clock, db_init, commits >>
    /\ UNCHANGED mainvars
    /\ UNCHANGED overlapvars

\* an except clause that catches every database error
RetryableAny(err) == err # None

\* a try block without an except clause
RetryableNone(err) == FALSE

\* except psycopg.OperationalError: the only failure the loop goes round on
Retryable(err) == err = "OperationalError"

insert_data_from_top_tracks_Attempt(out, before) ==
    /\ fn = "insert_data_from_top_tracks"
    /\ pc = "running"
    /\ retries < MAX_RETRIES
    /\ before <= Len(top_tracks)
    /\ before < Len(top_tracks) => clock + 1 \in Minutes
    /\ LET db == << artists, tracks, chart_histories >>
           reached == StageNo(out.stage) >= StageNo("chart_histories")
           dates == Dates(clock, Len(top_tracks), before)
           work == WorkAt(db, top_tracks, dates, out.stage)
           after == Committed(db, work, out.err)
       IN /\ artists' = after[1]
          /\ tracks' = after[2]
          /\ chart_histories' = after[3]
          /\ clock' = IF reached /\ before < Len(top_tracks) THEN clock + 1 ELSE clock
          /\ before < Len(top_tracks) => reached
    /\ CASE out.err = None ->
              /\ ret' = Return(None)
              /\ pc' = "done"
              /\ commits' = commits + 1
              /\ events' = events \o SleepBeforeAttempt(retries) \o << Request >>
              /\ UNCHANGED retries
         [] out.err # None /\ Retryable(out.err) ->
              /\ retries' = retries + 1
              /\ events' = events \o SleepBeforeAttempt(retries)
                                  \o << Request, Log("warning", None) >>
              /\ UNCHANGED << ret, pc, commits >>
         [] OTHER ->
              /\ ret' = Raise(out.err)
              /\ pc' = "done"
              /\ events' = events \o SleepBeforeAttempt(retries) \o << Request >>
              /\ UNCHANGED << retries, commits >>
    /\ UNCHANGED << fn, runs, response, url, entire_albums, top_tracks, walked,
                    db_pre, db_init >>
    /\ UNCHANGED mainvars
    /\ UNCHANGED overlapvars

insert_data_from_top_tracks_Exhausted ==
    /\ fn = "insert_data_from_top_tracks"
    /\ pc = "running"
    /\ ~(retries < MAX_RETRIES)
    /\ ret' = Raise("DatabaseError")
    /\ pc' = "done"
    /\ UNCHANGED << fn, runs, retries, response, url, entire_albums, top_tracks,
                    events, walked >>
    /\ UNCHANGED dbvars
    /\ UNCHANGED mainvars
    /\ UNCHANGED overlapvars

(***************************************************************************)
(* Initial states and the next-state relation.                             *)
(***************************************************************************)
EmptyDb == << << >>, << >>, << >> >>

\* tables left by earlier runs: one artist, one of its tracks and one chart
\* row of it, under names that differ from those the batches carry
SeedDb ==
    << << [name |-> SeedName, lastfm_url |-> "a1"] >>,
       << [name |-> SeedName, artist_id |-> 1, lastfm_url |-> "t1"] >>,
       << [track_id |-> 1, playcount |-> 10, listener |-> 5, chart_date |-> 0,
           rank |-> 1] >> >>

\* two artists, and a track of the second one
SeedDb2 ==
    << << [name |-> SeedName, lastfm_url |-> "a2"],
          [name |-> SeedName, lastfm_url |-> "a1"] >>,
       << [name |-> SeedName, artist_id |-> 2, lastfm_url |-> "t2"] >>,
       << >> >>

InitDbs == { EmptyDb, SeedDb, SeedDb2 }

Init ==
    /\ fn \in Functions
    /\ pc = "idle"
    /\ runs = 0
    /\ retries = 0
    /\ response = NoResponse
    /\ url = FirstUrl
    /\ entire_albums = << >>
    /\ ret = NoRet
    /\ events = << >>
    /\ walked = << >>
    /\ clock = 0
    /\ commits = 0
    /\ top_tracks \in (IF fn = "insert_data_from_top_tracks" THEN Batches ELSE { << >> })
    /\ db_init \in (IF fn = "insert_data_from_top_tracks" THEN InitDbs ELSE { EmptyDb })
    /\ db_pre = db_init
    /\ artists = db_init[1]
    /\ tracks = db_init[2]
    /\ chart_histories = db_init[3]
    /\ job = None
    /\ job_pc = "idle"
    /\ job_events = << >>
    /\ pending = << >>
    /\ tx = << >>
    /\ store = << >>

Next ==
    \/ get_access_token_Call
    \/ \E resp \in TokenResponses : get_access_token_Attempt(resp)
    \/ get_access_token_Exhausted
    \/ send_discord_alert_Call
    \/ \E resp \in AlertResponses : send_discord_alert_Attempt(resp)
    \/ send_discord_alert_Exhausted
    \/ get_new_released_albums_Call
    \/ \E resp \in AlbumResponses : get_new_released_albums_Attempt(resp)
    \/ get_new_released_albums_Exhausted
    \/ get_top_tracks_from_chart_Call
    \/ \E resp \in ChartResponses : get_top_tracks_from_chart_Attempt(resp)
    \/ get_top_tracks_from_chart_Exhausted
    \/ insert_data_from_top_tracks_Call
    \/ \E out \in DbOutcomes, before \in 0..MaxBatch :
          insert_data_from_top_tracks_Attempt(out, before)
    \/ insert_data_from_top_tracks_Exhausted

Spec == Init /\ [][Next]_vars

(***************************************************************************)
(* Properties.                                                             *)
(***************************************************************************)
IsRequestOrSleep(e) == e[1] \in {"request", "sleep"}
IsRequest(e) == e[1] = "request"
IsLog(level, e) == e[1] = level

\* the requests and sleeps of the current retry budget, in order
Schedule == SelectSeq(events, IsRequestOrSleep)
\* how many of the first i steps of the schedule are requests
RequestsUpTo(i) == Cardinality({ j \in 1..i : IsRequest(Schedule[j]) })
Requests == RequestsUpTo(Len(Schedule))
LogCount(level) == Cardinality({ i \in 1..Len(events) : IsLog(level, events[i]) })

\* C1: in every retried operation (per page for the paginated fetcher) at
\* most 5 attempts are made, nothing precedes attempt 1, the step right
\* before attempt k (2 <= k <= 5) is one sleep of exactly 2^(k-1) units, and
\* no sleep follows the 5th failed attempt or the end of the call.
C1_RetrySchedule ==
    /\ Requests <= 5
    /\ \A i \in 1..Len(Schedule) :
          IF IsRequest(Schedule[i])
          THEN IF RequestsUpTo(i) = 1
               THEN i = 1
               ELSE /\ i > 1
                    /\ Schedule[i - 1] = <<"sleep", 2 ^ (RequestsUpTo(i) - 1)>>
          ELSE /\ i > 1
               /\ IsRequest(Schedule[i - 1])
               /\ i = Len(Schedule) => (pc = "running" /\ Requests < 5)

\* C1 witness: the second page of a paginated fetch has used all five
\* attempts, after the sleeps 2, 4, 8 and 16, and the call has ended.
C1_Witness ==
    /\ fn = "get_new_released_albums"
    /\ pc = "done"
    /\ Len(walked) = 1
    /\ Requests = 5
    /\ <<"sleep", 16>> = Schedule[Len(Schedule) - 1]

\* the paginated fetch ended because a page used up its retries
Exhausted == pc = "done" /\ retries = MAX_RETRIES
WalkedEtags == { walked[i].etag : i \in 1..Len(walked) }

\* C2: when a later page exhausts its retries after an earlier page
\* succeeded, what the caller gets holds exactly the entries of the pages
\* that succeeded, is tagged as partial and carries the location of the page
\* that failed.
C2_PartialIsTagged ==
    (fn = "get_new_released_albums" /\ Exhausted /\ walked # << >>) =>
        /\ ret.kind = "return"
        /\ DictKeys(ret.value) = WalkedEtags
        /\ "partial" \in DOMAIN ret
        /\ "failed_at" \in DOMAIN ret

Count(table, u) == Cardinality({ i \in 1..Len(table) : table[i].lastfm_url = u })
Appended == Len(chart_histories) - Len(db_init[3])

\* C3: after N >= 1 successful invocations with the same batch, from any
\* initial database, artists holds exactly one row per artist URL of the
\* batch, tracks exactly one row per track URL, and chart_histories has
\* gained exactly N rows per batch entry: the n-th block of appended rows
\* holds one row for each entry, in batch order.
C3_UpsertIdempotent ==
    (fn = "insert_data_from_top_tracks" /\ commits >= 1) =>
        /\ \A i \in 1..Len(top_tracks) :
              /\ Count(artists, top_tracks[i].artist.url) = 1
              /\ Count(tracks, top_tracks[i].url) = 1
        /\ Appended = commits * Len(top_tracks)
        /\ \A n \in 1..commits : \A i \in 1..Len(top_tracks) :
              LET row == chart_histories[Len(db_init[3])
                                         + (n - 1) * Len(top_tracks) + i]
              IN /\ row.track_id \in 1..Len(tracks)
                 /\ tracks[row.track_id].lastfm_url = top_tracks[i].url
                 /\ row.playcount = top_tracks[i].playcount

\* C3 witness: the same batch, which names one artist twice, has been
\* persisted twice on top of rows left by earlier runs.
C3_Witness ==
    /\ fn = "insert_data_from_top_tracks"
    /\ commits = 2
    /\ db_init = SeedDb
    /\ Len(top_tracks) = 2
    /\ top_tracks[1].artist.url = top_tracks[2].artist.url
    /\ top_tracks[1].url # top_tracks[2].url

Db == << artists, tracks, chart_histories >>
\* the writes of one attempt of the running call are all there
AllPresent ==
    /\ \A i \in 1..Len(top_tracks) :
          /\ Count(artists, top_tracks[i].artist.url) = 1
          /\ Count(tracks, top_tracks[i].url) = 1
    /\ Len(chart_histories) = Len(db_pre[3]) + Len(top_tracks)
\* none of them is there
AllAbsent == Db = db_pre

\* C4: the batch is atomic across retries: the committed tables hold all
\* writes of an attempt or none; while only failed attempts have run, and
\* after a call that ended in a failure, they equal the tables from before
\* the call; a call that returned has appended exactly one chart-history row
\* per entry, however many attempts failed before.
C4_BatchAtomic ==
    fn = "insert_data_from_top_tracks" =>
        /\ AllPresent \/ AllAbsent
        /\ pc = "running" => AllAbsent
        /\ ret.kind = "raise" => AllAbsent
        /\ ret.kind = "return" =>
              /\ AllPresent
              /\ Len(chart_histories) = Len(db_pre[3]) + Len(top_tracks)

\* C4 witness: a call with a batch of two new tracks returned after four
\* failed attempts.
C4_Witness ==
    /\ fn = "insert_data_from_top_tracks"
    /\ ret.kind = "return"
    /\ retries = 4
    /\ db_pre = EmptyDb
    /\ Len(top_tracks) = 2
    /\ top_tracks[1].url # top_tracks[2].url

\* C5: send_discord_alert never raises: a finished call has returned; after
\* five failed attempts it has logged exactly one error, and after a
\* delivery none.
C5_AlertNeverRaises ==
    fn = "send_discord_alert" =>
        /\ ret.kind # "raise"
        /\ pc = "done" =>
              /\ ret.kind = "return"
              /\ (Requests = 5 /\ LogCount("warning") = 5) => LogCount("error") = 1
              /\ LogCount("info") >= 1 => LogCount("error") = 0
              /\ LogCount("error") + LogCount("info") = 1

\* C5 witness: all five deliveries failed and the call has ended.
C5_Witness ==
    /\ fn = "send_discord_alert"
    /\ pc = "done"
    /\ Requests = 5
    /\ LogCount("warning") = 5

\* transport succeeded and the body holds the credential field
GoodTokenResponse(resp) ==
    /\ resp.exc = FALSE
    /\ resp.status \in 200..399
    /\ resp.access_token \in Tokens

\* C6: an attempt of get_access_token ends the call exactly when its
\* response succeeded at transport level and holds the field, and the call
\* then returns that field; an attempt whose response failed or lacks the
\* field leaves the outcome open; at most 5 attempts are made and none is
\* made once the call has returned.
C6_FirstGoodToken ==
    [][ fn = "get_access_token" =>
          /\ (pc = "running" /\ events' # events) =>
                /\ Requests < 5
                /\ IF GoodTokenResponse(response')
                   THEN ret' = [kind |-> "return", value |-> response'.access_token]
                   ELSE ret' = ret /\ ret.kind = "none"
          /\ (pc = "done" /\ runs' = runs) => (events' = events /\ ret' = ret)
      ]_vars

\* C6 witness: the call returned the token of its third response, after
\* two responses that failed or lacked the field.
C6_Witness ==
    /\ fn = "get_access_token"
    /\ ret.kind = "return"
    /\ retries = 2
    /\ ret.value = "tokB"

\* the rows the finished call appended to chart_histories
NewRow(i) == chart_histories[Len(db_pre[3]) + i]

\* C7: the rows committed by one successful invocation carry the ranks
\* 1..K, the row of the entry at 0-based position i having rank i+1,
\* whatever the play counts and whether or not track URLs repeat.
C7_RanksInInputOrder ==
    (fn = "insert_data_from_top_tracks" /\ pc = "done" /\ ret.kind = "return") =>
        /\ Len(chart_histories) = Len(db_pre[3]) + Len(top_tracks)
        /\ \A p \in 0..(Len(top_tracks) - 1) :
              /\ NewRow(p + 1).rank = p + 1
              /\ NewRow(p + 1).playcount = top_tracks[p + 1].playcount
              /\ NewRow(p + 1).listener = top_tracks[p + 1].listeners
              /\ tracks[NewRow(p + 1).track_id].lastfm_url = top_tracks[p + 1].url
        /\ { NewRow(i).rank : i \in 1..Len(top_tracks) } = 1..Len(top_tracks)

\* C7 witness: a committed batch of two entries for the same track URL, the
\* second with the higher play count.
C7_Witness ==
    /\ fn = "insert_data_from_top_tracks"
    /\ pc = "done"
    /\ ret.kind = "return"
    /\ Len(top_tracks) = 2
    /\ top_tracks[1].url = top_tracks[2].url
    /\ top_tracks[1].playcount < top_tracks[2].playcount

\* the walk ended at a page without a next-page pointer
Complete == pc = "done" /\ ret.kind = "return" /\ retries < MAX_RETRIES
\* the last walked page that carries the identifier e
LastWith(e) ==
    walked[CHOOSE i \in 1..Len(walked) :
              /\ walked[i].etag = e
              /\ \A j \in (i + 1)..Len(walked) : walked[j].etag # e]

\* C8 as stated: a complete walk returns an aggregate that maps the
\* identifier of every walked page to that page's payload.
C8_EveryPageKeepsItsPayload ==
    (fn = "get_new_released_albums" /\ Complete) =>
        \A i \in 1..Len(walked) :
            /\ walked[i].etag \in DictKeys(ret.value)
            /\ DictGet(ret.value, walked[i].etag) = walked[i].albums

\* C8 amended: a complete walk returns, without raising and without an error
\* log, an aggregate whose identifiers are those of the walked pages, each
\* mapped to the payload of the last walked page that carries it; a walk of
\* one page yields one entry, that page's.
C8_CompleteAggregate ==
    (fn = "get_new_released_albums" /\ Complete) =>
        /\ walked # << >>
        /\ walked[Len(walked)].albums.next = None
        /\ LogCount("error") = 0
        /\ ret.value = entire_albums
        /\ DictKeys(ret.value) = WalkedEtags
        /\ Len(ret.value) = Cardinality(WalkedEtags)
        /\ \A e \in WalkedEtags : DictGet(ret.value, e) = LastWith(e).albums
        /\ Len(walked) = 1 => ret.value = << <<walked[1].etag, walked[1].albums>> >>

\* C8 witness: a complete walk of two pages that carry the same identifier
\* and different payloads.
C8_Witness ==
    /\ fn = "get_new_released_albums"
    /\ Complete
    /\ Len(walked) = 2
    /\ walked[1].etag = walked[2].etag
    /\ walked[1].albums.items # walked[2].albums.items

\* C9: the retry budget is per page: retries counts the failed attempts on
\* the current page only, so a page starts at 0 with a request that no sleep
\* precedes, and may use 5 attempts whatever the earlier pages consumed.
C9_BudgetPerPage ==
    fn = "get_new_released_albums" =>
        /\ retries = LogCount("warning")
        /\ retries \in 0..MAX_RETRIES
        /\ events # << >> => events[1] = <<"request", 0>>
        /\ (pc = "running" /\ events = << >>) => retries = 0

\* C9 witness: the first page succeeded on its fifth attempt and the second
\* page has then used five attempts of its own.
C9_Witness ==
    /\ fn = "get_new_released_albums"
    /\ Len(walked) = 1
    /\ walked[1].failures = 4
    /\ Requests = 5
    /\ retries = 5

\* C10: the paginated fetcher raises if and only if the aggregate is empty
\* when a page exhausts its retries, which is exactly when the first page
\* does; exhaustion of a later page returns the non-empty aggregate.
C10_RaiseIffFirstPageFails ==
    (fn = "get_new_released_albums" /\ pc = "done") =>
        /\ ret.kind = "raise" <=> (Exhausted /\ entire_albums = << >>)
        /\ entire_albums = << >> <=> walked = << >>
        /\ (Exhausted /\ walked # << >>) =>
              /\ ret.kind = "return"
              /\ ret.value = entire_albums
              /\ ret.value # << >>

\* C10 witness: the first page failed five times and the call raised.
C10_Witness ==
    /\ fn = "get_new_released_albums"
    /\ pc = "done"
    /\ ret.kind = "raise"
    /\ walked = << >>
    /\ Requests = 5

\* C12: once a page has failed 5 attempts the walk stops: the next step ends
\* the call without a request to that page or to any other, nothing happens
\* after it, and the entries aggregated before the failure are handed back
\* unchanged.
C12_WalkStopsAtExhaustion ==
    [][ fn = "get_new_released_albums" =>
          /\ (pc = "running" /\ retries = MAX_RETRIES) =>
                /\ pc' = "done"
                /\ Requests' = Requests
                /\ url' = url
                /\ walked' = walked
                /\ entire_albums' = entire_albums
                /\ entire_albums # << >> =>
                      ret' = [kind |-> "return", value |-> entire_albums]
          /\ (Exhausted /\ runs' = runs) =>
                (events' = events /\ ret' = ret /\ entire_albums' = entire_albums)
      ]_vars

\* C12 witness: the walk ended on a page that failed five times and handed
\* back the entry aggregated before.
C12_Witness ==
    /\ fn = "get_new_released_albums"
    /\ Exhausted
    /\ ret.kind = "return"
    /\ ret.value = entire_albums
    /\ Len(walked) = 1
    /\ Requests = 5

\* C13: all chart-history rows written by one invocation of the persister
\* carry the same minute-truncated timestamp, even when the clock crosses a
\* minute boundary while the batch is processed.
C13_TimestampPinned ==
    fn = "insert_data_from_top_tracks" =>
        \A i, j \in 1..(Len(chart_histories) - Len(db_pre[3])) :
            NewRow(i).chart_date = NewRow(j).chart_date

\* C14: the persister retries operational failures only. An attempt that fails
\* with another database error ends the call with that very error: the
\* attempts made are the earlier operational failures plus this one, no sleep
\* or attempt follows, and nothing of the batch is committed. The generic
\* DatabaseError is raised only after five operational failures.
C14_OnlyOperationalRetried ==
    [][ fn = "insert_data_from_top_tracks" =>
          /\ \A out \in DbOutcomes, before \in 0..MaxBatch :
                (/\ out.err \notin {None, "OperationalError"}
                 /\ insert_data_from_top_tracks_Attempt(out, before)) =>
                    /\ pc' = "done"
                    /\ ret' = [kind |-> "raise", value |-> out.err]
                    /\ retries' = retries
                    /\ Requests' = retries + 1
                    /\ LogCount("warning")' = retries
                    /\ events'[Len(events')] = Request
                    /\ Db' = db_pre
          /\ (pc = "running" /\ ret' = [kind |-> "raise", value |-> "DatabaseError"]) =>
                /\ retries = MAX_RETRIES
                /\ Requests = MAX_RETRIES
                /\ LogCount("warning") = MAX_RETRIES
                /\ Db = db_pre
          /\ (pc = "done" /\ ret.kind = "raise" /\ runs' = runs) =>
                (events' = events /\ Db' = Db)
      ]_vars

\* C14 witness: two operational failures, then an integrity error on the
\* third attempt ended the call with three attempts made.
C14_Witness ==
    /\ fn = "insert_data_from_top_tracks"
    /\ pc = "done"
    /\ ret = [kind |-> "raise", value |-> "IntegrityError"]
    /\ retries = 2
    /\ Requests = 3
    /\ top_tracks # << >>

\* the four operations that make one request per attempt
SingleRequestOps ==
    {"get_access_token", "send_discord_alert", "get_top_tracks_from_chart",
     "insert_data_from_top_tracks"}

\* the call ended on a successful attempt
Succeeded == pc = "done" /\ ret.kind = "return" /\ LogCount("error") = 0

\* the call ended the way it does when the budget is used up: the generic
\* raise of the operation, or for the notifier its error log
ExhaustedOutcome ==
    /\ pc = "done"
    /\ CASE fn = "send_discord_alert" -> LogCount("error") = 1
         [] fn = "insert_data_from_top_tracks" ->
                ret = [kind |-> "raise", value |-> "DatabaseError"]
         [] OTHER -> ret = [kind |-> "raise", value |-> "ValueError"]

\* C15 as stated: in the single-request operations a call that succeeds made
\* as many attempts as the index of its first success and ends on that
\* request, and the exhausted outcome occurs if and only if all 5 attempts
\* failed.
C15_ExhaustedIffAllFailed ==
    (fn \in SingleRequestOps /\ pc = "done") =>
        /\ Succeeded =>
              /\ Requests = retries + 1
              /\ LogCount("warning") = retries
              /\ Schedule[Len(Schedule)] = Request
        /\ ExhaustedOutcome <=> (Requests = MAX_RETRIES /\ ~Succeeded)

\* C15 amended: a call that succeeds made as many attempts as the index of its
\* first success and ends on that request; the exhausted outcome occurs if and
\* only if 5 attempts failed with a failure the operation retries; the only
\* other ending is the persister's, on an attempt that fails with a
\* non-operational database error, which is raised as it is.
C15_ExhaustedIffAllRetried ==
    (fn \in SingleRequestOps /\ pc = "done") =>
        /\ Succeeded =>
              /\ Requests = retries + 1
              /\ LogCount("warning") = retries
              /\ Schedule[Len(Schedule)] = Request
              /\ retries < MAX_RETRIES
        /\ ExhaustedOutcome <=> retries = MAX_RETRIES
        /\ ExhaustedOutcome =>
              (Requests = MAX_RETRIES /\ LogCount("warning") = MAX_RETRIES)
        /\ (~Succeeded /\ ~ExhaustedOutcome) =>
              /\ fn = "insert_data_from_top_tracks"
              /\ ret.kind = "raise"
              /\ ret.value \notin {"OperationalError", "DatabaseError"}
              /\ Requests = retries + 1

\* C15 witness: four operational failures and an integrity error on the fifth
\* attempt: five attempts failed and the call ended with the integrity error.
C15_Witness ==
    /\ fn = "insert_data_from_top_tracks"
    /\ pc = "done"
    /\ retries = MAX_RETRIES - 1
    /\ Requests = MAX_RETRIES
    /\ ret = [kind |-> "raise", value |-> "IntegrityError"]

\* table `old` is still there, row for row, at the head of table `new`
Kept(old, new) ==
    /\ Len(old) <= Len(new)
    /\ \A i \in 1..Len(old) : new[i] = old[i]

\* C16: the persister only creates rows. Every artist, track and chart-history
\* row that existed before an invocation (and so every row that existed before
\* the first one) is still present with the same content, whatever names and
\* artists the batch carries for the same URLs and however the invocation
\* ends.
C16_OnlyCreatesRows ==
    fn = "insert_data_from_top_tracks" =>
        \A k \in 1..3 : Kept(db_init[k], Db[k]) /\ Kept(db_pre[k], Db[k])

\* C16 witness: a batch that names an existing artist under another name and
\* an existing track under another name and another artist has been
\* committed, and new rows were created next to the old ones.
C16_Witness ==
    /\ fn = "insert_data_from_top_tracks"
    /\ commits >= 1
    /\ db_init = SeedDb2
    /\ \E i \in 1..Len(top_tracks) :
          /\ top_tracks[i].url = tracks[1].lastfm_url
          /\ top_tracks[i].name # tracks[1].name
          /\ top_tracks[i].artist.url # artists[tracks[1].artist_id].lastfm_url
          /\ top_tracks[i].artist.name # artists[1].name
    /\ Len(chart_histories) > Len(db_init[3])

\* C17: at every point of a paginated fetch the aggregate is keyed by page
\* identifier, last write wins: it holds one entry per distinct identifier
\* among the pages fetched so far, each with the payload of the latest page
\* that carries the identifier, so it never has more entries than pages were
\* fetched; the value handed back is that aggregate.
C17_KeyedLastWriteWins ==
    fn = "get_new_released_albums" =>
        /\ \A i, j \in 1..Len(entire_albums) :
              entire_albums[i][1] = entire_albums[j][1] => i = j
        /\ DictKeys(entire_albums) = WalkedEtags
        /\ Len(entire_albums) = Cardinality(WalkedEtags)
        /\ Len(entire_albums) <= Len(walked)
        /\ \A e \in WalkedEtags : DictGet(entire_albums, e) = LastWith(e).albums
        /\ (pc = "done" /\ ret.kind = "return") => ret.value = entire_albums

\* C17 witness: two pages were fetched under one identifier with different
\* payloads, and the aggregate holds one entry, the second page's.
C17_Witness ==
    /\ fn = "get_new_released_albums"
    /\ Len(walked) = 2
    /\ walked[1].etag = walked[2].etag
    /\ walked[1].albums # walked[2].albums
    /\ Len(entire_albums) = 1
    /\ entire_albums[1] = << walked[2].etag, walked[2].albums >>

\* the first entry of the batch that carries track URL u: the one whose
\* INSERT creates the track row
FirstEntryWith(u) ==
    top_tracks[CHOOSE i \in 1..Len(top_tracks) :
                  /\ top_tracks[i].url = u
                  /\ \A j \in 1..(i - 1) : top_tracks[j].url # u]

\* C20: referential integrity, after every step of every sequence of persister
\* invocations, failed attempts included. Every chart-history row holds the id
\* of an existing track row, and a row written by the persister that of the
\* track with the URL of its entry; every track row holds the id of an
\* existing artist row, and a track created by the persister that of the
\* artist with the artist URL of the entry that created it; no reference is
\* null.
C20_ReferentialIntegrity ==
    fn = "insert_data_from_top_tracks" =>
        /\ \A i \in 1..Len(chart_histories) :
              /\ chart_histories[i].track_id # Null
              /\ chart_histories[i].track_id \in 1..Len(tracks)
        /\ \A i \in 1..Len(tracks) :
              /\ tracks[i].artist_id # Null
              /\ tracks[i].artist_id \in 1..Len(artists)
        /\ \A i \in 1..Appended :
              LET row == chart_histories[Len(db_init[3]) + i]
                  entry == top_tracks[((i - 1) % Len(top_tracks)) + 1]
              IN tracks[row.track_id].lastfm_url = entry.url
        /\ \A i \in (Len(db_init[2]) + 1)..Len(tracks) :
              /\ \E j \in 1..Len(top_tracks) : top_tracks[j].url = tracks[i].lastfm_url
              /\ artists[tracks[i].artist_id].lastfm_url
                     = FirstEntryWith(tracks[i].lastfm_url).artist.url

\* C20 witness: after a failed attempt a batch was committed on top of
\* existing rows; it created a track under an artist that is not the first
\* row of artists, and a chart row for a track that is not the first row of
\* tracks.
C20_Witness ==
    /\ fn = "insert_data_from_top_tracks"
    /\ commits >= 1
    /\ retries >= 1
    /\ db_init = SeedDb2
    /\ Len(tracks) > Len(db_init[2])
    /\ tracks[Len(tracks)].artist_id > 1
    /\ Appended >= 1
    /\ chart_histories[Len(chart_histories)].track_id > 1

\* a transport success whose payload field or identifier header is missing
MalformedPage(r) ==
    /\ ~r.exc
    /\ r.ok
    /\ ("albums" \notin r.keys \/ ~r.tagged)

\* a transport error or an answer that is not OK
TransientFailure(r) == r.exc \/ ~r.ok

\* C18: in the paginated fetcher an attempt answered by a malformed response
\* does what an attempt answered by a transient failure does: the call goes
\* on, one attempt of the page's budget is used, a warning is logged and the
\* backoff sleep 2^retries follows (none after the fifth failure), and the
\* aggregate and the page location stay as they are.
C18_MalformedIsRetried ==
    [][ (/\ fn = "get_new_released_albums"
         /\ pc = "running"
         /\ retries < MAX_RETRIES
         /\ MalformedPage(response') \/ TransientFailure(response')) =>
              /\ pc' = "running"
              /\ ret' = ret
              /\ retries' = retries + 1
              /\ entire_albums' = entire_albums
              /\ walked' = walked
              /\ url' = url
              /\ events' = events \o << Request, <<"warning", None>> >>
                                  \o IF retries + 1 < MAX_RETRIES
                                     THEN << <<"sleep", 2 ^ (retries + 1)>> >>
                                     ELSE << >>
      ]_vars

\* C18 witness: on the second page an OK answer with the header and without
\* the payload field failed the attempt: the page is the same, one entry is
\* aggregated, a sleep follows.
C18_Witness ==
    /\ fn = "get_new_released_albums"
    /\ pc = "running"
    /\ retries = 1
    /\ MalformedPage(response)
    /\ response.tagged
    /\ Len(walked) = 1
    /\ url # FirstUrl
    /\ Len(entire_albums) = 1
    /\ events = << Request, <<"warning", None>>, <<"sleep", 2>> >>

(***************************************************************************)
(* Termination of the paginated fetcher.  The loop body of                 *)
(* get_new_released_albums without the record of the walked pages, so that *)
(* a walk of any length is a behaviour of finitely many states; the loop   *)
(* itself never waits for anything but the answer, hence the weak fairness. *)
(***************************************************************************)
get_new_released_albums_Iterate(resp) ==
    /\ fn = "get_new_released_albums"
    /\ pc = "running"
    /\ retries < MAX_RETRIES
    /\ IF PageFetched(resp)
       THEN /\ entire_albums' = DictSet(entire_albums, PageEtag(resp), resp.albums)
            /\ IF resp.albums.next = None
               THEN /\ ret' = Return(entire_albums')
                    /\ pc' = "done"
                    /\ events' = events \o << Request >>
                    /\ UNCHANGED << url, retries >>
               ELSE /\ url' = resp.albums.next
                    /\ retries' = RetriesForNextPage(retries)
                    /\ events' = << >>
                    /\ UNCHANGED << ret, pc >>
       ELSE /\ retries' = retries + 1
            /\ events' = events \o << Request, Log("warning", None) >>
                                \o SleepAfterFailure(retries)
            /\ UNCHANGED << entire_albums, url, ret, pc >>
    /\ response' = Received(resp)
    /\ UNCHANGED << fn, runs, top_tracks, walked >>
    /\ UNCHANGED dbvars
    /\ UNCHANGED mainvars
    /\ UNCHANGED overlapvars

InitLive == Init /\ fn = "get_new_released_albums"

NextLive ==
    \/ get_new_released_albums_Call
    \/ \E resp \in AlbumResponses : get_new_released_albums_Iterate(resp)
    \/ get_new_released_albums_Exhausted

SpecLive == InitLive /\ [][NextLive]_vars /\ WF_vars(NextLive)

\* C19: every invocation of the paginated fetcher eventually ends (with a
\* complete aggregate, a partial one or a raise), whatever the remote side
\* answers, next-page pointers that lead back to a visited page included.
C19_FetchTerminates ==
    (fn = "get_new_released_albums" /\ pc = "running") ~> (pc = "done")

(***************************************************************************)
(* main.py: the three jobs.  A job calls its core operations in a try      *)
(* block; an except clause logs the error and calls send_discord_alert.    *)
(* The calls run through the actions of apis.py above; the locals of a     *)
(* call that has returned are gone.  runs counts the first call only.      *)
(***************************************************************************)
Jobs == {"refresh_access_token", "get_new_releases", "chart_get_top_tracks"}

\* the operation a job calls first
FirstCall(j) ==
    CASE j = "refresh_access_token" -> "get_access_token"
      [] j = "get_new_releases" -> "get_new_released_albums"
      [] j = "chart_get_top_tracks" -> "get_top_tracks_from_chart"

\* exception exc is an instance of class cls
IsA(exc, cls) ==
    \/ exc = cls
    \/ cls = "DatabaseError" /\ exc \in {"OperationalError", "IntegrityError"}
    \/ cls = "ValueError" /\ exc = "JSONDecodeError"

\* a job whose only except clause is except ValueError
CaughtValueError(j) == {"ValueError"}

\* the except clauses of the job
Caught(j) ==
    CASE j = "refresh_access_token" -> {"ValueError"}
      [] j = "get_new_releases" -> {"ValueError", "JSONDecodeError"}
      [] j = "chart_get_top_tracks" ->
            {"ValueError", "JSONDecodeError", "KeyError", "DatabaseError"}

Alert(kind) == <<"alert", kind>>

\* the call of an operation of apis.py from the job
Enter(f) ==
    /\ fn' = f
    /\ pc' = "running"
    /\ retries' = 0
    /\ response' = NoResponse
    /\ ret' = NoRet
    /\ events' = << >>
    /\ url' = FirstUrl
    /\ entire_albums' = << >>
    /\ walked' = << >>
    /\ UNCHANGED << runs, top_tracks >>

\* an exception leaves the try block: the matching except clause logs the
\* error and calls the notifier; without one the exception leaves the job
job_Except ==
    /\ job_pc = "core"
    /\ pc = "done"
    /\ ret.kind = "raise"
    /\ IF \E cls \in Caught(job) : IsA(ret.value, cls)
       THEN /\ job_events' = job_events \o << Log("error", ret.value), Alert("failure") >>
            /\ job_pc' = "alert"
            /\ Enter("send_discord_alert")
       ELSE /\ job_pc' = "crashed"
            /\ UNCHANGED << fn, pc, runs, top_tracks, job_events >>
            /\ UNCHANGED callvars
    /\ UNCHANGED << job, pending >>
    /\ UNCHANGED dbvars
    /\ UNCHANGED overlapvars

\* the notifier has returned to the except clause or to the end of the try
\* block: the job returns
job_AlertReturn ==
    /\ job_pc = "alert"
    /\ fn = "send_discord_alert"
    /\ pc = "done"
    /\ job_pc' = "done"
    /\ UNCHANGED << fn, pc, runs, top_tracks, job, job_events, pending >>
    /\ UNCHANGED callvars
    /\ UNCHANGED dbvars
    /\ UNCHANGED overlapvars

\* refresh_access_token: the token is written to the file and logged
refresh_access_token_Return ==
    /\ job = "refresh_access_token"
    /\ job_pc = "core"
    /\ pc = "done"
    /\ ret.kind = "return"
    /\ job_events' = Append(job_events, Log("info", "saved"))
    /\ job_pc' = "done"
    /\ UNCHANGED << fn, pc, runs, top_tracks, job, pending >>
    /\ UNCHANGED callvars
    /\ UNCHANGED dbvars
    /\ UNCHANGED overlapvars

\* get_new_releases: the fetch returned a dict, complete or partial: the for
\* loop starts over its keys
get_new_releases_Return ==
    /\ job = "get_new_releases"
    /\ job_pc = "core"
    /\ pc = "done"
    /\ ret.kind = "return"
    /\ pending' = [i \in 1..Len(ret.value) |-> ret.value[i][1]]
    /\ job_pc' = "loop"
    /\ UNCHANGED << fn, pc, runs, top_tracks, job, job_events >>
    /\ UNCHANGED callvars
    /\ UNCHANGED dbvars
    /\ UNCHANGED overlapvars

\* one turn of the for loop: the file is written and logged, the success
\* alert is sent
get_new_releases_ForEach ==
    /\ job_pc = "loop"
    /\ pc = "done"
    /\ pending # << >>
    /\ job_events' = job_events \o << Log("info", Head(pending)), Alert("success") >>
    /\ pending' = Tail(pending)
    /\ Enter("send_discord_alert")
    /\ UNCHANGED << job, job_pc >>
    /\ UNCHANGED dbvars
    /\ UNCHANGED overlapvars

get_new_releases_End ==
    /\ job_pc = "loop"
    /\ pc = "done"
    /\ pending = << >>
    /\ job_pc' = "done"
    /\ UNCHANGED << fn, pc, runs, top_tracks, job, job_events, pending >>
    /\ UNCHANGED callvars
    /\ UNCHANGED dbvars
    /\ UNCHANGED overlapvars

\* chart_get_top_tracks: the chart is dumped and logged; tracks["tracks"]
\* ["track"] raises KeyError when the body lacks the keys, else the persister
\* is called with the list
chart_get_top_tracks_Fetched(has_tracks) ==
    /\ job = "chart_get_top_tracks"
    /\ job_pc = "core"
    /\ fn = "get_top_tracks_from_chart"
    /\ pc = "done"
    /\ ret.kind = "return"
    /\ job_events' = Append(job_events, Log("info", "saved"))
    /\ IF has_tracks
       THEN /\ Enter("insert_data_from_top_tracks")
            /\ db_pre' = << artists, tracks, chart_histories >>
       ELSE /\ ret' = Raise("KeyError")
            /\ db_pre' = db_pre
            /\ UNCHANGED << fn, pc, runs, top_tracks, retries, response, url,
                            entire_albums, events, walked >>
    /\ UNCHANGED << artists, tracks, chart_histories, clock, db_init, commits >>
    /\ UNCHANGED << job, job_pc, pending >>
    /\ UNCHANGED overlapvars

\* the persister returned: the success is logged and announced
chart_get_top_tracks_Inserted ==
    /\ job = "chart_get_top_tracks"
    /\ job_pc = "core"
    /\ fn = "insert_data_from_top_tracks"
    /\ pc = "done"
    /\ ret.kind = "return"
    /\ job_events' = job_events \o << Log("info", "inserted"), Alert("success") >>
    /\ job_pc' = "alert"
    /\ Enter("send_discord_alert")
    /\ UNCHANGED << job, pending >>
    /\ UNCHANGED dbvars
    /\ UNCHANGED overlapvars

InitMain ==
    /\ job \in Jobs
    /\ job_pc = "core"
    /\ job_events = << >>
    /\ pending = << >>
    /\ fn = FirstCall(job)
    /\ pc = "idle"
    /\ runs = 0
    /\ retries = 0
    /\ response = NoResponse
    /\ url = FirstUrl
    /\ entire_albums = << >>
    /\ ret = NoRet
    /\ events = << >>
    /\ walked = << >>
    /\ clock = 0
    /\ commits = 0
    /\ top_tracks \in (IF job = "chart_get_top_tracks" THEN Batches ELSE { << >> })
    /\ db_init \in (IF job = "chart_get_top_tracks" THEN InitDbs ELSE { EmptyDb })
    /\ db_pre = db_init
    /\ artists = db_init[1]
    /\ tracks = db_init[2]
    /\ chart_histories = db_init[3]
    /\ tx = << >>
    /\ store = << >>

\* the core operation is called once, when the job starts
CoreCall ==
    /\ job_pc = "core"
    /\ pc = "idle"
    /\ \/ get_access_token_Call
       \/ get_new_released_albums_Call
       \/ get_top_tracks_from_chart_Call

NextMain ==
    \/ CoreCall
    \/ \E resp \in TokenResponses : get_access_token_Attempt(resp)
    \/ get_access_token_Exhausted
    \/ \E resp \in AlbumResponses : get_new_released_albums_Iterate(resp)
    \/ get_new_released_albums_Exhausted
    \/ \E resp \in ChartResponses : get_top_tracks_from_chart_Attempt(resp)
    \/ get_top_tracks_from_chart_Exhausted
    \/ \E out \in DbOutcomes, before \in 0..MaxBatch :
          insert_data_from_top_tracks_Attempt(out, before)
    \/ insert_data_from_top_tracks_Exhausted
    \/ \E resp \in AlertResponses : send_discord_alert_Attempt(resp)
    \/ send_discord_alert_Exhausted
    \/ job_Except
    \/ job_AlertReturn
    \/ refresh_access_token_Return
    \/ get_new_releases_Return
    \/ get_new_releases_ForEach
    \/ get_new_releases_End
    \/ \E has_tracks \in BOOLEAN : chart_get_top_tracks_Fetched(has_tracks)
    \/ chart_get_top_tracks_Inserted

SpecMain == InitMain /\ [][NextMain]_vars

\* a terminal failure of a core operation has reached the try block
TerminalFailure == job_pc = "core" /\ pc = "done" /\ ret.kind = "raise"

Invocations == {1, 2}

\* the batches of the overlapping calls: one entry, and two entries in either
\* order
OverlapBatches ==
    LET e1 == Entry(<<"t1", "a1", 10>>)
        e2 == Entry(<<"t2", "a2", 20>>)
    IN { << e1 >>, << e1, e2 >>, << e2, e1 >> }

\* rows written by transaction p, in state st
Stamp(table, p, st) ==
    [i \in 1..Len(table) |-> [row |-> table[i], by |-> p, state |-> st]]

\* what a statement of transaction p sees of a table: the committed rows and
\* its own pending ones; a row it does not see matches no URL
View(table, p) ==
    [i \in 1..Len(table) |->
        IF \/ table[i].state = "committed"
           \/ table[i].state = "pending" /\ table[i].by = p
        THEN table[i].row
        ELSE [table[i].row EXCEPT !.lastfm_url = None]]

\* a store without the unique index: no insert ever waits
HeldNever(table, p, u) == FALSE

\* the unique index on lastfm_url: another open transaction has inserted the
\* key u, so an insert of u by p has to wait for that transaction to end
Held(table, p, u) ==
    \E i \in 1..Len(table) :
        /\ table[i].state = "pending"
        /\ table[i].by # p
        /\ table[i].row.lastfm_url = u

\* the transaction of p ends: its pending rows become committed or aborted
Settle(p, st) ==
    LET end(table) ==
            [i \in 1..Len(table) |->
                IF table[i].by = p /\ table[i].state = "pending"
                THEN [table[i] EXCEPT !.state = st] ELSE table[i]]
    IN [artists |-> end(store.artists), tracks |-> end(store.tracks),
        chart_histories |-> end(store.chart_histories)]

\* the entry the running statement of p is executed for, the table it
\* inserts into, the key it inserts and the row
Track(p) == tx[p].batch[tx[p].i]
Target(p) == IF tx[p].stage = "artists" THEN store.artists ELSE store.tracks
Key(p) == IF tx[p].stage = "artists" THEN Track(p).artist.url ELSE Track(p).url
NewRowOf(p) ==
    CASE tx[p].stage = "artists" ->
            [name |-> Track(p).artist.name, lastfm_url |-> Track(p).artist.url]
      [] tx[p].stage = "tracks" ->
            [name |-> Track(p).name,
             artist_id |-> IdByUrl(View(store.artists, p), Track(p).artist.url),
             lastfm_url |-> Track(p).url]
      [] tx[p].stage = "chart_histories" ->
            [track_id |-> IdByUrl(View(store.tracks, p), Track(p).url),
             playcount |-> Track(p).playcount,
             listener |-> Track(p).listeners,
             chart_date |-> clock,
             rank |-> Rank(tx[p].i - 1)]

\* the statement of p has run: executemany goes to the next entry, and after
\* the last one the next statement of the block starts
Advance(t) ==
    IF t.i < Len(t.batch)
    THEN [t EXCEPT !.i = @ + 1, !.waiting = FALSE]
    ELSE [t EXCEPT !.i = 1, !.waiting = FALSE,
                   !.stage = Stages[StageNo(t.stage) + 1]]

\* store after p has inserted the row of its running statement
Inserted(p) ==
    LET new == [row |-> NewRowOf(p), by |-> p, state |-> "pending"]
    IN CASE tx[p].stage = "artists" ->
              [store EXCEPT !.artists = Append(@, new)]
         [] tx[p].stage = "tracks" ->
              [store EXCEPT !.tracks = Append(@, new)]
         [] tx[p].stage = "chart_histories" ->
              [store EXCEPT !.chart_histories = Append(@, new)]

\* exception err leaves the with block of p: the transaction is rolled back;
\* an operational error is caught and the loop goes round, any other error
\* leaves the call
Fail(p, err) ==
    /\ store' = Settle(p, "aborted")
    /\ tx' = [tx EXCEPT ![p] =
                IF Retryable(err)
                THEN [@ EXCEPT !.stage = "connect", !.i = 1, !.waiting = FALSE,
                               !.retries = @ + 1]
                ELSE [@ EXCEPT !.stage = "done", !.waiting = FALSE,
                               !.ret = Raise(err)]]

\* psycopg.connect(...): the transaction starts, or the connection fails
overlap_Connect(p, ok) ==
    /\ tx[p].stage = "connect"
    /\ tx[p].retries < MAX_RETRIES
    /\ IF ok
       THEN /\ tx' = [tx EXCEPT ![p].stage = "artists", ![p].i = 1]
            /\ store' = store
       ELSE Fail(p, "OperationalError")
    /\ UNCHANGED << fn, pc, runs, top_tracks >>
    /\ UNCHANGED callvars
    /\ UNCHANGED dbvars
    /\ UNCHANGED mainvars

\* one guarded INSERT of the artists or tracks executemany: nothing to do
\* when the statement sees the key, a wait when another open transaction has
\* inserted it, else the row is inserted
overlap_Insert(p) ==
    /\ tx[p].stage \in {"artists", "tracks"}
    /\ ~tx[p].waiting
    /\ IF ~NotExists(View(Target(p), p), Key(p))
       THEN /\ tx' = [tx EXCEPT ![p] = Advance(@)]
            /\ store' = store
       ELSE IF Held(Target(p), p, Key(p))
            THEN /\ tx' = [tx EXCEPT ![p].waiting = TRUE]
                 /\ store' = store
            ELSE /\ tx' = [tx EXCEPT ![p] = Advance(@)]
                 /\ store' = Inserted(p)
    /\ UNCHANGED << fn, pc, runs, top_tracks >>
    /\ UNCHANGED callvars
    /\ UNCHANGED dbvars
    /\ UNCHANGED mainvars

\* the transaction p waited for has ended: after its commit the key is
\* taken and the insert fails with a unique violation (an IntegrityError),
\* after its rollback the insert goes through
overlap_Wake(p) ==
    /\ tx[p].waiting
    /\ ~Held(Target(p), p, Key(p))
    /\ IF ~NotExists(View(Target(p), p), Key(p))
       THEN Fail(p, "IntegrityError")
       ELSE /\ tx' = [tx EXCEPT ![p] = Advance(@)]
            /\ store' = Inserted(p)
    /\ UNCHANGED << fn, pc, runs, top_tracks >>
    /\ UNCHANGED callvars
    /\ UNCHANGED dbvars
    /\ UNCHANGED mainvars

\* p and q wait for each other: the store ends one of the two with a
\* deadlock error, which psycopg raises as an OperationalError
overlap_Deadlock(p) ==
    /\ \A q \in Invocations : tx[q].waiting /\ Held(Target(q), q, Key(q))
    /\ Fail(p, "OperationalError")
    /\ UNCHANGED << fn, pc, runs, top_tracks >>
    /\ UNCHANGED callvars
    /\ UNCHANGED dbvars
    /\ UNCHANGED mainvars

\* one INSERT of the chart_histories executemany
overlap_History(p) ==
    /\ tx[p].stage = "chart_histories"
    /\ tx' = [tx EXCEPT ![p] = Advance(@)]
    /\ store' = Inserted(p)
    /\ UNCHANGED << fn, pc, runs, top_tracks >>
    /\ UNCHANGED callvars
    /\ UNCHANGED dbvars
    /\ UNCHANGED mainvars

\* the with block ends normally: commit, and the call returns
overlap_Commit(p) ==
    /\ tx[p].stage = "commit"
    /\ store' = Settle(p, "committed")
    /\ tx' = [tx EXCEPT ![p].stage = "done", ![p].ret = Return(None)]
    /\ UNCHANGED << fn, pc, runs, top_tracks >>
    /\ UNCHANGED callvars
    /\ UNCHANGED dbvars
    /\ UNCHANGED mainvars

\* the loop ends: raise psycopg.DatabaseError
overlap_Exhausted(p) ==
    /\ tx[p].stage = "connect"
    /\ ~(tx[p].retries < MAX_RETRIES)
    /\ tx' = [tx EXCEPT ![p].stage = "done", ![p].ret = Raise("DatabaseError")]
    /\ store' = store
    /\ UNCHANGED << fn, pc, runs, top_tracks >>
    /\ UNCHANGED callvars
    /\ UNCHANGED dbvars
    /\ UNCHANGED mainvars

InitOverlap ==
    /\ fn = "insert_data_from_top_tracks"
    /\ pc = "idle"
    /\ runs = 0
    /\ retries = 0
    /\ response = NoResponse
    /\ url = FirstUrl
    /\ entire_albums = << >>
    /\ ret = NoRet
    /\ events = << >>
    /\ walked = << >>
    /\ clock = 0
    /\ commits = 0
    /\ top_tracks = << >>
    /\ db_init \in {EmptyDb, SeedDb}
    /\ db_pre = db_init
    /\ artists = db_init[1]
    /\ tracks = db_init[2]
    /\ chart_histories = db_init[3]
    /\ job = None
    /\ job_pc = "idle"
    /\ job_events = << >>
    /\ pending = << >>
    /\ tx \in [Invocations ->
                 [batch : OverlapBatches, stage : {"connect"}, i : {1},
                  waiting : {FALSE}, retries : {0}, ret : {NoRet}]]
    /\ store = [artists |-> Stamp(db_init[1], 0, "committed"),
                tracks |-> Stamp(db_init[2], 0, "committed"),
                chart_histories |-> Stamp(db_init[3], 0, "committed")]

NextOverlap ==
    \/ \E p \in Invocations, ok \in BOOLEAN : overlap_Connect(p, ok)
    \/ \E p \in Invocations : overlap_Insert(p)
    \/ \E p \in Invocations : overlap_Wake(p)
    \/ \E p \in Invocations : overlap_Deadlock(p)
    \/ \E p \in Invocations : overlap_History(p)
    \/ \E p \in Invocations : overlap_Commit(p)
    \/ \E p \in Invocations : overlap_Exhausted(p)

SpecOverlap == InitOverlap /\ [][NextOverlap]_vars

\* the committed rows of a table share no URL
UniqueUrls(table) ==
    \A i, j \in 1..Len(table) :
        (/\ table[i].state = "committed"
         /\ table[j].state = "committed"
         /\ table[i].row.lastfm_url = table[j].row.lastfm_url) => i = j

\* the chart-history rows call p has committed
HistoryOf(p) ==
    { i \in 1..Len(store.chart_histories) :
        /\ store.chart_histories[i].by = p
        /\ store.chart_histories[i].state = "committed" }

\* C21: when two persister calls overlap on one database whose store
\* enforces the unique index on lastfm_url, no committed state holds two
\* artist rows or two track rows with one URL; a call that has returned has
\* committed exactly one chart-history row per entry of its batch, written
\* for the committed track with the entry's URL; and a call that has not
\* returned has committed nothing.
C21_OverlapKeepsUrlsUnique ==
    /\ UniqueUrls(store.artists)
    /\ UniqueUrls(store.tracks)
    /\ \A p \in Invocations :
          IF tx[p].ret.kind = "return"
          THEN /\ Cardinality(HistoryOf(p)) = Len(tx[p].batch)
               /\ \A k \in 1..Len(tx[p].batch) :
                     \E i \in HistoryOf(p) :
                        LET h == store.chart_histories[i].row
                        IN /\ h.rank = k
                           /\ h.track_id \in 1..Len(store.tracks)
                           /\ store.tracks[h.track_id].state = "committed"
                           /\ store.tracks[h.track_id].row.lastfm_url
                                  = tx[p].batch[k].url
          ELSE HistoryOf(p) = {}

\* C21 witness: the two calls overlapped on the same artist: call 2 waited
\* for the row call 1 had inserted and, after call 1 committed and returned,
\* was ended by the unique violation, its own rows rolled back.
C21_Witness ==
    /\ tx[1].ret = [kind |-> "return", value |-> None]
    /\ tx[2].ret = [kind |-> "raise", value |-> "IntegrityError"]
    /\ tx[1].retries = 0 /\ tx[2].retries = 0
    /\ Len(tx[2].batch) = 2
    /\ \E i \in 1..Len(store.artists) :
          store.artists[i].by = 2 /\ store.artists[i].state = "aborted"
    /\ Cardinality(HistoryOf(1)) = Len(tx[1].batch)

====
